---- MODULE Spec2Model ----
(***************************************************************************)
(* Model of the retrieval-augmented question answering pipeline of         *)
(* MFHelpDeskAI: the two query functions of utils/processing/retriever.py  *)
(* and the Streamlit script of app.py (FinanceQAApp.__init__ followed by   *)
(* FinanceQAApp.run, executed once per user interaction).                  *)
(*                                                                         *)
(* Texts that the code inspects or concatenates (answers, questions, the   *)
(* separator) are sequences of one-character strings; a code point outside *)
(* ASCII is written as its name ("U+00E8").  Metadata values (file names,  *)
(* paths) are only ever compared for equality and are plain strings.       *)
(***************************************************************************)
EXTENDS Integers, Sequences, FiniteSets, TLC

VARIABLES
    \* st.session_state
    use_previous_answer, history, previous_answer, current_question,
    \* widget values of the sidebar, kept by the framework between runs
    page, model_choice,
    \* config.OPENAI_API_KEY, config.ANTHROPIC_API_KEY: whether each is set
    OPENAI_API_KEY, ANTHROPIC_API_KEY,
    \* the local variables and the calls of the last script run
    last,
    \* inputs and results of the query functions called on their own
    q_results, q_backend, q_env_key, q_gpt, q_cloud,
    \* input and result of the reference reduction called on its own
    d_references, d_unique

vars == <<use_previous_answer, history, previous_answer, current_question,
          page, model_choice, OPENAI_API_KEY, ANTHROPIC_API_KEY, last,
          q_results, q_backend, q_env_key, q_gpt, q_cloud,
          d_references, d_unique>>

app_vars == <<use_previous_answer, history, previous_answer, current_question,
              page, model_choice, OPENAI_API_KEY, ANTHROPIC_API_KEY, last>>

query_vars == <<q_results, q_backend, q_env_key, q_gpt, q_cloud>>

dedupe_vars == <<d_references, d_unique>>

----------------------------------------------------------------------------
(* Bounds of the model *)

\* longest reference list handed to the reference reduction on its own
MaxRefs == 3

\* longest session history
MaxHistory == 2

(* Program constants *)

\* k of similarity_search_with_relevance_scores
TOP_K == 3

----------------------------------------------------------------------------
(* Texts of the program *)

NO_RESULTS_GPT == <<"N", "o", "n", " ", "c", "i", " ", "s", "o", "n", "o", " ", "r", "i", "s", "u", "l", "t", "a", "t", "i", " ", "p", "e", "r", "t", "i", "n", "e", "n", "t", "i", " ", "p", "e", "r", " ", "l", "a", " ", "t", "u", "a", " ", "d", "o", "m", "a", "n", "d", "a", ".">>

NO_RESULTS_CLOUD == <<"N", "o", " ", "r", "e", "l", "e", "v", "a", "n", "t", " ", "r", "e", "s", "u", "l", "t", "s", " ", "f", "o", "u", "n", "d", " ", "f", "o", "r", " ", "y", "o", "u", "r", " ", "q", "u", "e", "s", "t", "i", "o", "n", ".">>

KEY_WARNING == <<"U+26A0", "U+FE0F", " ", "L", "a", " ", "c", "h", "i", "a", "v", "e", " ", "A", "P", "I", " ", "p", "e", "r", " ", "i", "l", " ", "m", "o", "d", "e", "l", "l", "o", " ", "s", "e", "l", "e", "z", "i", "o", "n", "a", "t", "o", " ", "n", "o", "n", " ", "U+00E8", " ", "d", "i", "s", "p", "o", "n", "i", "b", "i", "l", "e", ".">>

\* f"{previous_answer} \n\nDomanda attuale: {question}"
SEPARATOR == <<" ", "\n", "\n", "D", "o", "m", "a", "n", "d", "a", " ", "a", "t", "t", "u", "a", "l", "e", ":", " ">>

\* the phrases whose presence marks an out-of-context response
OUT_OF_CONTEXT_RESPONSES == << <<"N", "o", "n", " ", "l", "o", " ", "s", "o">> >>

\* the phrase PROMPT_TEMPLATE tells the model to answer with: 'I don't know'
PROMPT_SENTINEL == <<"I", " ", "d", "o", "n", "'", "t", " ", "k", "n", "o", "w">>

----------------------------------------------------------------------------
(* str.lower and the in operator on strings *)

UPPERCASE == <<"A", "B", "C", "D", "E", "F", "G", "H", "I", "J", "K", "L", "M",
               "N", "O", "P", "Q", "R", "S", "T", "U", "V", "W", "X", "Y", "Z">>

LOWERCASE == <<"a", "b", "c", "d", "e", "f", "g", "h", "i", "j", "k", "l", "m",
               "n", "o", "p", "q", "r", "s", "t", "u", "v", "w", "x", "y", "z">>

LowerChar(c) ==
    IF \E i \in 1..Len(UPPERCASE) : UPPERCASE[i] = c
    THEN LOWERCASE[CHOOSE i \in 1..Len(UPPERCASE) : UPPERCASE[i] = c]
    ELSE c

\* text.lower()
Lower(text) == [i \in 1..Len(text) |-> LowerChar(text[i])]

\* phrase in text
Contains(text, phrase) ==
    \E k \in 0..(Len(text) - Len(phrase)) :
        \A i \in 1..Len(phrase) : text[k + i] = phrase[i]

\* any(phrase.lower() in response_text.lower() for phrase in OUT_OF_CONTEXT_RESPONSES)
IsOutOfContext(response_text) ==
    \E p \in 1..Len(OUT_OF_CONTEXT_RESPONSES) :
        Contains(Lower(response_text), Lower(OUT_OF_CONTEXT_RESPONSES[p]))

----------------------------------------------------------------------------
(* dict.get and the two query functions *)

\* d.get(key, default)
Get(d, key, default) == IF key \in DOMAIN d THEN d[key] ELSE default

\* the list comprehension that builds the references of query_rag_with_gpt
ReferencesGpt(results) ==
    [i \in 1..Len(results) |->
        [file_name |-> Get(results[i], "file_name", "Documento sconosciuto"),
         file_path |-> Get(results[i], "file_path", "Percorso sconosciuto")]]

\* the list comprehension that builds the references of query_rag_with_cloud
ReferencesCloud(results) ==
    [i \in 1..Len(results) |->
        [file_name |-> Get(results[i], "file_name", "Unknown Document"),
         file_path |-> Get(results[i], "file_path", "Unknown Path")]]

\* what a call of a query function did: raised is "none" when it returned
Outcome(raised, answer, references, usage, retrievals, llm_calls) ==
    [raised |-> raised, answer |-> answer, references |-> references,
     usage |-> usage, retrievals |-> retrievals, llm_calls |-> llm_calls]

\* a variant that asks the model even when nothing was retrieved
query_rag_with_gpt_always_asks(results, backend) ==
    IF backend.fails
    THEN Outcome("BackendError", <<>>, <<>>, <<>>, 1, 1)
    ELSE IF Len(results) = 0 \/ IsOutOfContext(backend.text)
    THEN Outcome("none", backend.text, <<>>, <<>>, 1, 1)
    ELSE Outcome("none", backend.text, ReferencesGpt(results), <<>>, 1, 1)

\* a variant that calls the model a second time when the call fails
query_rag_with_gpt_retries(results, backend) ==
    IF Len(results) = 0
    THEN Outcome("none", NO_RESULTS_GPT, <<>>, <<>>, 1, 0)
    ELSE IF backend.fails
    THEN Outcome("BackendError", <<>>, <<>>, <<>>, 1, 2)
    ELSE IF IsOutOfContext(backend.text)
    THEN Outcome("none", backend.text, <<>>, <<>>, 1, 1)
    ELSE Outcome("none", backend.text, ReferencesGpt(results), <<>>, 1, 1)

\* query_rag_with_gpt: results is what the similarity search returns (the
\* metadata of each passage), backend is what model.predict does
query_rag_with_gpt(results, backend) ==
    IF Len(results) = 0
    THEN Outcome("none", NO_RESULTS_GPT, <<>>, <<>>, 1, 0)
    ELSE IF backend.fails
    THEN Outcome("BackendError", <<>>, <<>>, <<>>, 1, 1)
    ELSE IF IsOutOfContext(backend.text)
    THEN Outcome("none", backend.text, <<>>, <<>>, 1, 1)
    ELSE Outcome("none", backend.text, ReferencesGpt(results), <<>>, 1, 1)

\* a variant that returns the references of the passages in reverse order
query_rag_with_cloud_reversed(env_key, results, backend) ==
    IF ~env_key
    THEN Outcome("ValueError", <<>>, <<>>, <<>>, 0, 0)
    ELSE IF Len(results) = 0
    THEN Outcome("none", NO_RESULTS_CLOUD, <<>>, <<0, 0>>, 1, 0)
    ELSE IF backend.fails
    THEN Outcome("BackendError", <<>>, <<>>, <<>>, 1, 1)
    ELSE IF IsOutOfContext(backend.text)
    THEN Outcome("none", backend.text, <<>>, backend.usage, 1, 1)
    ELSE Outcome("none", backend.text,
                 [i \in 1..Len(results) |->
                     ReferencesCloud(results)[Len(results) + 1 - i]],
                 backend.usage, 1, 1)

\* query_rag_with_cloud: env_key is whether os.getenv finds the key,
\* backend is what client.messages.create does
query_rag_with_cloud(env_key, results, backend) ==
    IF ~env_key
    THEN Outcome("ValueError", <<>>, <<>>, <<>>, 0, 0)
    ELSE IF Len(results) = 0
    THEN Outcome("none", NO_RESULTS_CLOUD, <<>>, <<0, 0>>, 1, 0)
    ELSE IF backend.fails
    THEN Outcome("BackendError", <<>>, <<>>, <<>>, 1, 1)
    ELSE IF IsOutOfContext(backend.text)
    THEN Outcome("none", backend.text, <<>>, backend.usage, 1, 1)
    ELSE Outcome("none", backend.text, ReferencesCloud(results), backend.usage, 1, 1)

----------------------------------------------------------------------------
(* The reduction of a reference list in add_to_history *)

\* unique_references[source] = name on a dict that keeps insertion order,
\* the dict being the sequence of its items
DictSet(d, source, name) ==
    IF \E i \in 1..Len(d) : d[i][1] = source
    THEN [i \in 1..Len(d) |-> IF d[i][1] = source THEN <<source, name>> ELSE d[i]]
    ELSE Append(d, <<source, name>>)

\* ref.get("source_url", ref.get("file_path", "Sconosciuto"))
SourceOf(ref) == Get(ref, "source_url", Get(ref, "file_path", "Sconosciuto"))

\* ref.get("file_name", "Web Content")
NameOf(ref) == Get(ref, "file_name", "Web Content")

RECURSIVE UniqueFrom(_, _, _)
\* the for loop over references, from index i on
UniqueFrom(d, references, i) ==
    IF i > Len(references)
    THEN d
    ELSE UniqueFrom(DictSet(d, SourceOf(references[i]), NameOf(references[i])),
                    references, i + 1)

\* a reduction that keeps the name of the first reference of each source
unique_references_first_wins(references) ==
    LET RECURSIVE F(_, _)
        F(d, i) ==
            IF i > Len(references) THEN d
            ELSE IF \E j \in 1..Len(d) : d[j][1] = SourceOf(references[i])
            THEN F(d, i + 1)
            ELSE F(Append(d, <<SourceOf(references[i]), NameOf(references[i])>>), i + 1)
    IN F(<<>>, 1)

\* list(unique_references.items()) after the loop
unique_references(references) == UniqueFrom(<<>>, references, 1)

----------------------------------------------------------------------------
(* Inputs *)

NameValues == {"a.pdf", "b.pdf"}
PathValues == {"/docs/a", "/docs/b"}

\* the metadata dicts with the keys D, each key with a value of its kind
MetadataOver(D) ==
    {m \in [D -> NameValues \cup PathValues] :
        /\ "file_name" \in D => m["file_name"] \in NameValues
        /\ "file_path" \in D => m["file_path"] \in PathValues}

\* the metadata a retrieved passage may carry
Metadata == UNION {MetadataOver(D) : D \in SUBSET {"file_name", "file_path"}}

SeqsUpTo(S, n) == UNION {[1..k -> S] : k \in 0..n}

\* what a similarity search with k = TOP_K may return
RetrievalResults == SeqsUpTo(Metadata, TOP_K)

R_GROUNDED == <<"O", "k">>
R_NON_LO_SO == <<"N", "o", "n", " ", "l", "o", " ", "s", "o">>
R_UPPER == <<"N", "O", "N", " ", "L", "O", " ", "S", "O", ".">>
R_INSIDE == <<"B", "o", ",", " ", "n", "o", "n", " ", "l", "o", " ", "s", "o", "!">>
R_NEAR == <<"N", "o", "n", " ", "s", "o">>
R_I_DONT_KNOW == <<"I", " ", "d", "o", "n", "'", "t", " ", "k", "n", "o", "w">>
R_I_DONT_KNOW_MIXED == <<"i", " ", "D", "O", "N", "'", "T", " ", "k", "n", "o", "w", ".">>

ResponseTexts == {<<>>, R_GROUNDED, R_NON_LO_SO, R_UPPER, R_INSIDE, R_NEAR,
                  R_I_DONT_KNOW, R_I_DONT_KNOW_MIXED}

\* token counts reported by the Claude backend
Usages == {<<12, 5>>}

BackendFailure == [fails |-> TRUE, text |-> <<>>, usage |-> <<>>]

Backends ==
    {BackendFailure} \cup
    {[fails |-> FALSE, text |-> t, usage |-> u] : t \in ResponseTexts, u \in Usages}

SourceUrlValues == {"http://u"}

\* the references add_to_history may be handed: dicts with any of the three keys
ReferenceDicts ==
    UNION {{r \in [D -> NameValues \cup PathValues \cup SourceUrlValues] :
               /\ "file_name" \in D => r["file_name"] \in NameValues
               /\ "file_path" \in D => r["file_path"] \in PathValues
               /\ "source_url" \in D => r["source_url"] \in SourceUrlValues}
           : D \in SUBSET {"file_name", "file_path", "source_url"}}

NotCalled == [raised |-> "not called"]

\* the values the variables of the application keep while a function is
\* exercised on its own
AppIdle ==
    /\ use_previous_answer = FALSE
    /\ history = <<>>
    /\ previous_answer = <<>>
    /\ current_question = <<>>
    /\ page = "Domande"
    /\ model_choice = "GPT (OpenAI)"
    /\ OPENAI_API_KEY = FALSE
    /\ ANTHROPIC_API_KEY = FALSE
    /\ last = [outcome |-> "not run"]

QueryIdle ==
    /\ q_results = <<>>
    /\ q_backend = BackendFailure
    /\ q_env_key = FALSE
    /\ q_gpt = NotCalled
    /\ q_cloud = NotCalled

DedupeIdle ==
    /\ d_references = <<>>
    /\ d_unique = <<"not called">>

----------------------------------------------------------------------------
(* The query functions on their own *)

InitQuery ==
    /\ q_results \in RetrievalResults
    /\ q_backend \in Backends
    /\ q_env_key \in BOOLEAN
    /\ q_gpt = NotCalled
    /\ q_cloud = NotCalled
    /\ AppIdle
    /\ DedupeIdle

CallGpt ==
    /\ q_gpt = NotCalled
    /\ q_gpt' = query_rag_with_gpt(q_results, q_backend)
    /\ UNCHANGED <<q_results, q_backend, q_env_key, q_cloud>>
    /\ UNCHANGED <<app_vars, dedupe_vars>>

CallCloud ==
    /\ q_cloud = NotCalled
    /\ q_cloud' = query_rag_with_cloud(q_env_key, q_results, q_backend)
    /\ UNCHANGED <<q_results, q_backend, q_env_key, q_gpt>>
    /\ UNCHANGED <<app_vars, dedupe_vars>>

NextQuery == CallGpt \/ CallCloud

SpecQuery == InitQuery /\ [][NextQuery]_vars

----------------------------------------------------------------------------
(* The reference reduction on its own *)

InitDedupe ==
    /\ d_references \in SeqsUpTo(ReferenceDicts, MaxRefs)
    /\ d_unique = <<"not called">>
    /\ AppIdle
    /\ QueryIdle

CallDedupe ==
    /\ d_unique = <<"not called">>
    /\ d_unique' = unique_references(d_references)
    /\ UNCHANGED d_references
    /\ UNCHANGED <<app_vars, query_vars>>

NextDedupe == CallDedupe

SpecDedupe == InitDedupe /\ [][NextDedupe]_vars

----------------------------------------------------------------------------
(* Claims about the query functions on their own (SpecQuery) *)

GptCalled == q_gpt # NotCalled
CloudCalled == q_cloud # NotCalled

\* the call reached the similarity search and it returned no passage
GptSearchedNothing == GptCalled /\ q_gpt.retrievals = 1 /\ Len(q_results) = 0
CloudSearchedNothing == CloudCalled /\ q_cloud.retrievals = 1 /\ Len(q_results) = 0

\* C1, as stated: on either path an empty similarity search makes the query
\* return the text "No relevant results found for your question." with no
\* references, without calling the model.
C1_NoResultsSameFixedText ==
    /\ GptSearchedNothing =>
          /\ q_gpt.raised = "none"
          /\ q_gpt.answer = NO_RESULTS_CLOUD
          /\ q_gpt.references = <<>>
          /\ q_gpt.llm_calls = 0
    /\ CloudSearchedNothing =>
          /\ q_cloud.raised = "none"
          /\ q_cloud.answer = NO_RESULTS_CLOUD
          /\ q_cloud.references = <<>>
          /\ q_cloud.llm_calls = 0

\* C1, amended: on either path an empty similarity search makes the query
\* return a fixed text with no references, without calling the model; the
\* text is "No relevant results found for your question." on the Claude
\* path and "Non ci sono risultati pertinenti per la tua domanda." on the
\* GPT path.
C1_NoResultsFixedTextPerPath ==
    /\ GptSearchedNothing =>
          /\ q_gpt.raised = "none"
          /\ q_gpt.answer = NO_RESULTS_GPT
          /\ q_gpt.references = <<>>
          /\ q_gpt.llm_calls = 0
    /\ CloudSearchedNothing =>
          /\ q_cloud.raised = "none"
          /\ q_cloud.answer = NO_RESULTS_CLOUD
          /\ q_cloud.references = <<>>
          /\ q_cloud.llm_calls = 0

\* both paths have searched, found nothing, and the model would have answered
C1_Witness ==
    /\ GptSearchedNothing
    /\ CloudSearchedNothing
    /\ ~q_backend.fails
    /\ q_backend.text = R_GROUNDED

\* the response contains, in any casing, the phrase the prompt asks for
ContainsPromptSentinel(text) == Contains(Lower(text), Lower(PROMPT_SENTINEL))

\* C2, as stated: on either path, when the response of the model contains in
\* any casing the phrase the prompt template tells it to emit, the query
\* returns the response verbatim with no references although passages were
\* retrieved.
C2_PromptSentinelSuppressesReferences ==
    /\ (GptCalled /\ q_gpt.llm_calls = 1 /\ q_gpt.raised = "none"
            /\ ContainsPromptSentinel(q_backend.text)) =>
          (q_gpt.answer = q_backend.text /\ q_gpt.references = <<>>)
    /\ (CloudCalled /\ q_cloud.llm_calls = 1 /\ q_cloud.raised = "none"
            /\ ContainsPromptSentinel(q_backend.text)) =>
          (q_cloud.answer = q_backend.text /\ q_cloud.references = <<>>)

BothCalled == GptCalled /\ CloudCalled /\ q_env_key

HasBothKeys(m) == {"file_name", "file_path"} \subseteq DOMAIN m

\* C10, as stated: for every retrieval result and every response the two
\* paths return the same answer text and the same reference list.
C10_SameAnswerAndReferences ==
    BothCalled =>
        /\ q_gpt.raised = q_cloud.raised
        /\ q_gpt.answer = q_cloud.answer
        /\ q_gpt.references = q_cloud.references

\* C10, amended: with the Anthropic key set in the environment the two paths
\* raise or return alike and make the same calls; for a non-empty retrieval
\* result they return the same answer text and reference lists of the same
\* length that agree on every metadata field the passage carries, hence the
\* same list when every passage carries file_name and file_path; for an empty
\* retrieval result each returns its own fixed text and no references.
C10_SameUpToFixedTexts ==
    BothCalled =>
        /\ q_gpt.raised = q_cloud.raised
        /\ q_gpt.retrievals = q_cloud.retrievals
        /\ q_gpt.llm_calls = q_cloud.llm_calls
        /\ Len(q_results) > 0 => q_gpt.answer = q_cloud.answer
        /\ Len(q_results) = 0 =>
              /\ q_gpt.answer = NO_RESULTS_GPT /\ q_gpt.references = <<>>
              /\ q_cloud.answer = NO_RESULTS_CLOUD /\ q_cloud.references = <<>>
        /\ Len(q_gpt.references) = Len(q_cloud.references)
        /\ Len(q_gpt.references) \in {0, Len(q_results)}
        /\ \A i \in 1..Len(q_gpt.references) :
              \A key \in DOMAIN q_results[i] :
                  /\ q_gpt.references[i][key] = q_results[i][key]
                  /\ q_cloud.references[i][key] = q_results[i][key]
        /\ (\A i \in 1..Len(q_results) : HasBothKeys(q_results[i])) =>
              q_gpt.references = q_cloud.references

\* both paths answered from three passages of two documents
C10_Witness ==
    /\ BothCalled
    /\ Len(q_results) = TOP_K
    /\ \A i \in 1..Len(q_results) : HasBothKeys(q_results[i])
    /\ q_results[1] # q_results[2]
    /\ q_results[1] = q_results[3]
    /\ q_backend.text = R_GROUNDED
    /\ q_gpt.raised = "none"
    /\ Len(q_gpt.references) = TOP_K
    /\ q_cloud.usage = <<12, 5>>

----------------------------------------------------------------------------
(* Claims about the reference reduction on its own (SpecDedupe) *)

DedupeCalled == d_unique # <<"not called">>

Sources == {SourceOf(d_references[i]) : i \in 1..Len(d_references)}

FirstIndex(source) ==
    CHOOSE i \in 1..Len(d_references) :
        /\ SourceOf(d_references[i]) = source
        /\ \A j \in 1..(i - 1) : SourceOf(d_references[j]) # source

LastIndex(source) ==
    CHOOSE i \in 1..Len(d_references) :
        /\ SourceOf(d_references[i]) = source
        /\ \A j \in (i + 1)..Len(d_references) : SourceOf(d_references[j]) # source

\* one entry per distinct source, in the order of the first occurrences
OnePerSourceInFirstSeenOrder ==
    /\ Len(d_unique) = Cardinality(Sources)
    /\ \A i \in 1..Len(d_unique) : d_unique[i][1] \in Sources
    /\ \A i, j \in 1..Len(d_unique) :
          i < j => FirstIndex(d_unique[i][1]) < FirstIndex(d_unique[j][1])

\* C3, as stated: the reduced list has one entry per distinct source
\* identifier, in first-seen order, each with the display name of the first
\* reference with that identifier.
C3_FirstSeenName ==
    DedupeCalled =>
        /\ OnePerSourceInFirstSeenOrder
        /\ \A i \in 1..Len(d_unique) :
              d_unique[i][2] = NameOf(d_references[FirstIndex(d_unique[i][1])])

\* C3, amended: the reduced list has one entry per distinct source
\* identifier, in first-seen order, each with the display name of the last
\* reference with that identifier.
C3_LastSeenName ==
    DedupeCalled =>
        /\ OnePerSourceInFirstSeenOrder
        /\ \A i \in 1..Len(d_unique) :
              d_unique[i][2] = NameOf(d_references[LastIndex(d_unique[i][1])])

\* a list reduced to two entries in which two references share a source and
\* differ in their display names
C3_Witness ==
    /\ DedupeCalled
    /\ Len(d_references) = 3
    /\ Len(d_unique) = 2
    /\ SourceOf(d_references[1]) = SourceOf(d_references[3])
    /\ NameOf(d_references[1]) # NameOf(d_references[3])

----------------------------------------------------------------------------
(* The script of app.py: FinanceQAApp.__init__ followed by FinanceQAApp.run, *)
(* executed from the top at every user interaction                          *)

PAGE_QUESTIONS == "Domande"
PAGE_DOCUMENTS == "Gestione Documenti"
Pages == {PAGE_QUESTIONS, PAGE_DOCUMENTS}

MODEL_GPT == "GPT (OpenAI)"
MODEL_CLAUDE == "Claude (Anthropic)"
model_options == {MODEL_GPT, MODEL_CLAUDE}

Q_FIRST == <<"Q", "1", "?">>
Q_URL == <<"h", "t", "t", "p", ":", "/", "/", "x", ".", "i", "t">>

\* what the user may have typed in the text input
TypedQuestions == {<<>>, Q_FIRST, Q_URL}

URL_SCHEME == <<"h", "t", "t", "p", ":", "/", "/">>

\* validators.url(question), on the inputs above
IsUrl(question) ==
    /\ Len(question) > Len(URL_SCHEME)
    /\ SubSeq(question, 1, Len(URL_SCHEME)) = URL_SCHEME

\* st.text_input(..., value=current_question): the value shown by default,
\* or what the user typed
TextInput(value) == {value} \cup TypedQuestions

DOC_A == [file_name |-> "a.pdf", file_path |-> "/docs/a"]
DOC_A_RENAMED == [file_name |-> "b.pdf", file_path |-> "/docs/a"]

\* what the similarity search returns during a script run
AppRetrievalResults == {<<>>, <<DOC_A, DOC_A_RENAMED>>}

\* what the selected backend does during a script run
AppBackends ==
    {BackendFailure} \cup
    {[fails |-> FALSE, text |-> t, usage |-> u] :
        t \in {R_GROUNDED, R_UPPER}, u \in Usages}

\* lines 80-82 never clearing
ClearedPreviousAnswerNever(toggle, previous) == previous

\* lines 80-82 of __init__: the previous answer after the toggle is read
ClearedPreviousAnswer(toggle, previous) == IF ~toggle THEN <<>> ELSE previous

\* lines 131-132 of display_history: usa is the index of the pressed
\* button, 0 when none is pressed
CurrentQuestionAfterButtons(usa) ==
    IF usa \in 1..Len(history) THEN history[usa].question ELSE current_question

\* the context put in front of every question, also of the first one
QuestionWithContextAlways(toggle, previous, question) ==
    previous \o SEPARATOR \o question

\* lines 180-185 of run
QuestionWithContext(toggle, previous, question) ==
    IF toggle /\ Len(previous) > 0
    THEN previous \o SEPARATOR \o question
    ELSE question

\* lines 188-194 of run; openai_key and anthropic_key are whether the keys of
\* config are set, env_key is whether os.getenv finds the Anthropic key when
\* query_rag_with_cloud asks for it
Query(choice, openai_key, anthropic_key, env_key, results, backend) ==
    IF choice = MODEL_GPT /\ openai_key
    THEN query_rag_with_gpt(results, backend)
    ELSE IF choice = MODEL_CLAUDE /\ anthropic_key
    THEN query_rag_with_cloud(env_key, results, backend)
    ELSE Outcome("none", KEY_WARNING, <<>>, <<>>, 0, 0)

\* a history that keeps only the newest entry
add_to_history_replacing(h, question, answer, references) ==
    <<[question |-> question, answer |-> answer,
       references |-> unique_references(references)]>>

\* add_to_history
add_to_history(h, question, answer, references) ==
    Append(h, [question |-> question, answer |-> answer,
               references |-> unique_references(references)])

\* lines 205-206 of run
UpdatedPreviousAnswer(toggle, previous, answer) ==
    IF toggle THEN answer ELSE previous

\* the locals of a script run and the calls it made
Locals(vector_store, question, outcome, question_with_context, out) ==
    [vector_store |-> vector_store, question |-> question, outcome |-> outcome,
     question_with_context |-> question_with_context, raised |-> out.raised,
     answer |-> out.answer, references |-> out.references,
     retrievals |-> out.retrievals, llm_calls |-> out.llm_calls]

NoQuery == Outcome("none", <<>>, <<>>, <<>>, 0, 0)

\* the part of run that leaves the session state as __init__ left it
NoAnswer(previous, current, locals) ==
    /\ history' = history
    /\ previous_answer' = previous
    /\ current_question' = current
    /\ last' = locals

\* what the call of lines 188-194 may do, over all that it reads from
\* outside: the environment, the similarity search and the backend
QueryOutcomesOf ==
    [choice \in model_options, openai_key \in BOOLEAN, anthropic_key \in BOOLEAN |->
        {Query(choice, openai_key, anthropic_key, env_key, results, backend) :
            env_key \in BOOLEAN, results \in AppRetrievalResults,
            backend \in AppBackends}]

QueryOutcomes(choice) == QueryOutcomesOf[choice, OPENAI_API_KEY, ANTHROPIC_API_KEY]

\* line 178 with the test of the vector store left out
ShouldAskWithoutStore(vector_store, question) == Len(question) > 0

\* line 178 of run: elif self.vector_store and question
ShouldAsk(vector_store, question) == vector_store /\ Len(question) > 0

\* lines 178-210 of run: the question is put to the selected backend
Ask(toggle, previous, current, vector_store, question, out) ==
    LET question_with_context == QuestionWithContext(toggle, previous, question)
    IN  IF out.raised # "none"
        THEN NoAnswer(previous, current,
                      Locals(vector_store, question, "raised",
                             question_with_context, out))
        ELSE /\ Len(history) < MaxHistory
             /\ history' = add_to_history(history, question, out.answer, out.references)
             /\ previous_answer' = UpdatedPreviousAnswer(toggle, previous, out.answer)
             /\ current_question' = <<>>
             /\ last' = Locals(vector_store, question, "answer",
                               question_with_context, out)

\* run, reached with the session state that __init__ left: previous and
\* current are the previous answer and the current question at that point.
\* What the run reads from outside is chosen where it is read: the vector
\* store loaded by __init__, the text input, the loading of a web page, and
\* what the query function meets.
Run(toggle, previous, current) ==
    \E vector_store \in BOOLEAN :
        IF page' = PAGE_DOCUMENTS
        THEN NoAnswer(previous, current,
                      Locals(vector_store, <<>>, "documents", <<>>, NoQuery))
        ELSE \E question \in TextInput(current) :
                IF IsUrl(question)
                THEN \E web_ok \in BOOLEAN :
                        NoAnswer(previous, current,
                                 Locals(vector_store, question,
                                        IF web_ok THEN "url loaded" ELSE "url failed",
                                        <<>>, NoQuery))
                ELSE IF ShouldAsk(vector_store, question)
                THEN \E out \in QueryOutcomes(model_choice') :
                        Ask(toggle, previous, current, vector_store, question, out)
                ELSE NoAnswer(previous, current,
                              Locals(vector_store, question,
                                     IF ~vector_store THEN "warning" ELSE "idle",
                                     <<>>, NoQuery))

\* one execution of the script: the widgets return page_in, choice and toggle
\* and the history button usa is pressed (0: none)
Script(page_in, choice, toggle, usa) ==
    /\ page' = page_in
    /\ model_choice' = choice
    /\ use_previous_answer' = toggle
    /\ Run(toggle,
           ClearedPreviousAnswer(toggle, previous_answer),
           CurrentQuestionAfterButtons(usa))
    /\ UNCHANGED <<OPENAI_API_KEY, ANTHROPIC_API_KEY>>
    /\ UNCHANGED <<query_vars, dedupe_vars>>

\* the session as the first execution of the script leaves it
Init ==
    /\ use_previous_answer = FALSE
    /\ history = <<>>
    /\ previous_answer = <<>>
    /\ current_question = <<>>
    /\ page = PAGE_QUESTIONS
    /\ model_choice \in model_options
    /\ OPENAI_API_KEY \in BOOLEAN
    /\ ANTHROPIC_API_KEY \in BOOLEAN
    /\ \E vector_store \in BOOLEAN :
          last = Locals(vector_store, <<>>,
                        IF ~vector_store THEN "warning" ELSE "idle", <<>>, NoQuery)
    /\ QueryIdle
    /\ DedupeIdle

\* the user types into the text input (or leaves it) and the script runs
SubmitQuestion ==
    /\ Script(page, model_choice, use_previous_answer, 0)

\* the user flips the checkbox of the previous answer
ToggleChange ==
    /\ Script(page, model_choice, ~use_previous_answer, 0)

\* the user presses the button "Usa" of a history entry
PressUsa == \E usa \in 1..Len(history) :
                Script(page, model_choice, use_previous_answer, usa)

\* the user picks the other page in the sidebar
SwitchPage == \E page_in \in Pages \ {page} :
                  Script(page_in, model_choice, use_previous_answer, 0)

\* the user picks the other model in the sidebar
SelectModel == \E choice \in model_options \ {model_choice} :
                   Script(page, choice, use_previous_answer, 0)

Next == SubmitQuestion \/ ToggleChange \/ PressUsa \/ SwitchPage \/ SelectModel

Spec == Init /\ [][Next]_vars

----------------------------------------------------------------------------
(* Claims about the script (Spec).  A state is the session at the end of a *)
(* script run and last holds the locals of that run; in a step the         *)
(* unprimed variables are the session as the run before left it.           *)

\* the run put the question to Query (lines 187-194)
Asked(locals) == locals.outcome \in {"answer", "raised"}

\* C4: the effective question is the previous answer, the separator and the
\* typed question when the toggle is on and the previous answer is not empty;
\* otherwise it is the typed question, in particular in every run that
\* follows a run with the toggle off.
C4_EffectiveQuestion ==
    [][Asked(last') =>
        /\ last'.question_with_context =
              IF use_previous_answer' /\ Len(previous_answer) > 0
              THEN previous_answer \o SEPARATOR \o last'.question
              ELSE last'.question
        /\ ~use_previous_answer => last'.question_with_context = last'.question
      ]_vars

\* the second answer of a session was asked for with the first in front
C4_Witness ==
    /\ Len(history) = 2
    /\ last.outcome = "answer"
    /\ Len(history[1].answer) > 0
    /\ last.question_with_context = history[1].answer \o SEPARATOR \o last.question
    /\ last.question = Q_FIRST

\* the credentials of the selected backend are not set
SelectedCredentialsAbsent ==
    \/ model_choice = MODEL_GPT /\ ~OPENAI_API_KEY
    \/ model_choice = MODEL_CLAUDE /\ ~ANTHROPIC_API_KEY

\* C5, as stated: with the credentials of the selected backend absent a
\* submitted question calls no backend and ends in an error signalled to the
\* caller, not in an answer text with empty references.
C5_MissingCredentialsIsAnError ==
    (SelectedCredentialsAbsent /\ Asked(last)) =>
        /\ last.llm_calls = 0
        /\ last.outcome = "raised"

\* C6: with no vector store, a run of the questions page on a text that is no
\* URL searches nothing, calls no backend, appends nothing to the history and
\* only warns; the previous answer is what __init__ left, hence unchanged
\* when the toggle was not flipped in the same run.
C6_NoKnowledgeBase ==
    [][(~last'.vector_store /\ page' = PAGE_QUESTIONS /\ ~IsUrl(last'.question)) =>
        /\ last'.outcome = "warning"
        /\ last'.retrievals = 0
        /\ last'.llm_calls = 0
        /\ history' = history
        /\ previous_answer' = IF use_previous_answer' THEN previous_answer ELSE <<>>
        /\ use_previous_answer' = use_previous_answer =>
              previous_answer' = previous_answer
      ]_vars

\* a question met the warning while an answer was kept as context
C6_Witness ==
    /\ last.outcome = "warning"
    /\ ~last.vector_store
    /\ last.question = Q_FIRST
    /\ Len(history) = 1
    /\ Len(previous_answer) > 0

\* C7: when the backend call raises, the backend was called once, the run
\* has no answer and no references, the history is as before and the
\* previous answer is what __init__ left, hence unchanged when the toggle
\* was not flipped in the same run.
C7_BackendFailure ==
    [][(last'.outcome = "raised" /\ last'.raised = "BackendError") =>
        /\ last'.llm_calls = 1
        /\ last'.answer = <<>>
        /\ last'.references = <<>>
        /\ history' = history
        /\ previous_answer' = IF use_previous_answer' THEN previous_answer ELSE <<>>
        /\ use_previous_answer' = use_previous_answer =>
              previous_answer' = previous_answer
      ]_vars

\* the backend failed on a question asked with a previous answer as context
C7_Witness ==
    /\ last.outcome = "raised"
    /\ last.raised = "BackendError"
    /\ Len(history) = 1
    /\ previous_answer = history[1].answer
    /\ Len(previous_answer) > 0
    /\ last.question_with_context = previous_answer \o SEPARATOR \o last.question

\* C8: at the end of every script run the previous answer is non-empty only
\* if the toggle is on, and then it is the answer of the last history entry,
\* the most recently completed query.
C8_SinglePriorAnswer ==
    Len(previous_answer) > 0 =>
        /\ use_previous_answer
        /\ Len(history) > 0
        /\ previous_answer = history[Len(history)].answer

\* the answer kept is the second of two different answers
C8_Witness ==
    /\ Len(history) = 2
    /\ history[1].answer # history[2].answer
    /\ Len(history[1].answer) > 0
    /\ Len(previous_answer) > 0
    /\ previous_answer = history[2].answer

\* C9: a script run that completes a query appends one entry with the typed
\* question, the answer and one reference per source file, and every other
\* run leaves the history as it is.
C9_HistoryAppendOnly ==
    [][/\ last'.outcome = "answer" =>
            /\ Len(history') = Len(history) + 1
            /\ SubSeq(history', 1, Len(history)) = history
            /\ history'[Len(history')].question = last'.question
            /\ history'[Len(history')].answer = last'.answer
            /\ {r[1] : r \in {history'[Len(history')].references[i] :
                                 i \in 1..Len(history'[Len(history')].references)}}
                  = {last'.references[i].file_path : i \in 1..Len(last'.references)}
       /\ last'.outcome # "answer" => history' = history
      ]_vars

\* the button of the first of two different entries was pressed on a run
\* that completed no query
C9_Witness ==
    /\ Len(history) = 2
    /\ history[1] # history[2]
    /\ current_question = history[1].question
    /\ Len(current_question) > 0
    /\ Len(history[2].references) > 0

====
